---------------------------- MODULE Spec2Model ----------------------------
(***************************************************************************)
(* Model of the LUKS volume plugin (docker-luks-volume-plugin).            *)
(*                                                                         *)
(* The state is what the driver keeps outside the process: the volume      *)
(* directories under <data_dir>, the mount directories under <mount_dir>,  *)
(* the kernel's device-mapper table and mount table, plus the position of  *)
(* every request handler inside the driver call it is running.  Every      *)
(* call of the driver into the file system, libcryptsetup, dd, mkfs or     *)
(* mount(2) is one step of a handler; handlers of the multi-threaded HTTP  *)
(* server interleave at these steps.                                       *)
(***************************************************************************)
EXTENDS Naturals, Sequences, FiniteSets, TLC

VARIABLES
    hsm,        \* the HSM variant the driver was constructed with
    dataDir,    \* dataDir[n]:  <data_dir>/<n> exists
    img,        \* img[n]:      state of <data_dir>/<n>/volume.img
    keyfile,    \* keyfile[n]:  contents of <data_dir>/<n>/keyfile, or NoFile
    mountDir,   \* mountDir[n]: <mount_dir>/<n> exists
    dm,         \* the active device-mapper nodes (a set of records)
    mounts,     \* mounts[n]:   stack of dm names mounted at <mount_dir>/<n>
    h,          \* h[p]:        the request handler p and its position
    faults,     \* failures injected by the environment so far
    ops,        \* requests accepted so far
    par,        \* requests accepted while another one was being handled
    life,       \* life[n]:     the requests on <n> answered so far, oldest first
    srv         \* the dispatcher: the position of start and the socket path

vars == <<hsm, dataDir, img, keyfile, mountDir, dm, mounts, h, faults, ops, par, life,
          srv>>

-----------------------------------------------------------------------------
(* Bounds of the model *)

\* requests accepted in one behaviour
MaxOps == 4

\* requests accepted while another request is being handled, in one behaviour
MaxPar == 1

\* requests accepted in a behaviour in which requests overlap
MaxParOps == 2

\* failures of the environment (I/O errors, HSM errors, ...) in one behaviour
MaxFaults == 1

Names == {"v1", "v2"}
Ids == {"id1", "id2"}
\* the worker threads of the HTTP server, in the order they take requests
Workers == <<"h1", "h2">>
Procs == {Workers[k] : k \in DOMAIN Workers}
HSMs == {"dummy", "cloud"}

\* the fresh random draws (keys, UUIDs); every create consumes one
Tokens == 1 .. MaxOps

-----------------------------------------------------------------------------
(* Byte strings.  A byte string is the random value it was derived from,   *)
(* its length, and the encodings applied to it, innermost first; each      *)
(* encoding remembers the length of what it encoded, as the padding of     *)
(* base64 and the length fields of PKCS#7 do.                              *)

Bytes(len, val) == [len |-> len, val |-> val, enc |-> <<>>]

\* no file at that path
NoFile == [len |-> 0, val |-> 0, enc |-> <<[kind |-> "absent", of |-> 0]>>]
\* a LUKS header without a keyslot
NoKey == [len |-> 0, val |-> 0, enc |-> <<[kind |-> "nokey", of |-> 0]>>]

DummyRandomLen == 1024
CloudRandomLen == 128

\* DummyHSM::random_bytes and CloudLockHSM::random_bytes; t is the value drawn
random_bytes(v, t) ==
    IF v = "dummy" THEN Bytes(DummyRandomLen, t) ELSE Bytes(CloudRandomLen, t)

Top(b) == b.enc[Len(b.enc)]
Pop(b) == [len |-> Top(b).of, val |-> b.val, enc |-> SubSeq(b.enc, 1, Len(b.enc) - 1)]

\* base64::encode: four output bytes for every three input bytes, padded
Base64Encode(b) ==
    [len |-> 4 * ((b.len + 2) \div 3), val |-> b.val,
     enc |-> Append(b.enc, [kind |-> "b64", of |-> b.len])]

IsBase64(b) == Len(b.enc) > 0 /\ Top(b).kind = "b64"

\* base64::decode
Base64Decode(b) == Pop(b)

\* Pkcs7::encrypt under the wrapping certificate, then to_pem; the AES-256-CBC
\* content is padded to the next 16 bytes and the PEM armour is base64 again
Pkcs7Pem(b) ==
    [len |-> 4 * ((16 * (b.len \div 16 + 1) + 2) \div 3), val |-> b.val,
     enc |-> Append(b.enc, [kind |-> "pkcs7", of |-> b.len])]

\* the first k bytes of b, k < b.len: what a write that failed, or a
\* truncation, left in a file
Prefix(b, k) ==
    [len |-> k, val |-> b.val, enc |-> Append(b.enc, [kind |-> "cut", of |-> b.len])]

\* b is a PEM text that lost its last byte, the newline after the END line
LostNewline(b) ==
    /\ Len(b.enc) > 1
    /\ Top(b).kind = "cut" /\ Top(b).of = b.len + 1
    /\ Top(Pop(b)).kind = "pkcs7"

\* the PEM text as the PEM reader takes it: it reads line by line and does not
\* need the newline after the END line
PemOf(b) == IF LostNewline(b) THEN Pop(b) ELSE b

\* Pkcs7::from_pem accepts it
IsPkcs7Pem(b) == Len(PemOf(b).enc) > 0 /\ Top(PemOf(b)).kind = "pkcs7"

\* encrypt without the base64 step: the envelope holds the blob itself
encrypt_NoBase64(v, b) == IF v = "dummy" THEN b ELSE Pkcs7Pem(b)

\* VirtualHSM::encrypt.  DummyHSM returns the blob; CloudLockHSM returns the
\* PEM of the PKCS#7 envelope of the base64 of the blob.
encrypt(v, b) == IF v = "dummy" THEN b ELSE Pkcs7Pem(Base64Encode(b))

\* VirtualHSM::decrypt can answer Ok: DummyHSM always; CloudLockHSM when the blob
\* parses as PKCS#7 PEM and the service's answer is base64
decrypt_ok(v, b) ==
    \/ v = "dummy"
    \/ v = "cloud" /\ IsPkcs7Pem(b) /\ IsBase64(Pop(PemOf(b)))

\* VirtualHSM::decrypt, its Ok value.  The service opens the envelope and
\* returns its content, which do_request base64-decodes.
decrypt(v, b) == IF v = "dummy" THEN b ELSE Base64Decode(Pop(PemOf(b)))

\* the CryptoError of a decrypt that fails: only CloudLockHSM's can, and every
\* error of it is mapped to UnableToDecrypt
DecryptError(v, b) == "UnableToDecrypt"

\* impl fmt::Display for CryptoError
Display(e) == IF e = "InvalidKey" THEN "Invalid Key" ELSE "Unknown"

-----------------------------------------------------------------------------
(* The state outside the process *)

\* volume.img: "none" (no file), "raw" (allocated, no LUKS header), "hdr" (LUKS
\* header, no keyslot), "luks" (header and keyslot 0), "ext4" (header, keyslot 0
\* and an ext4 file system inside).  slot is the key keyslot 0 accepts and hdr
\* the UUID of the header.
NoImg == [st |-> "none", slot |-> NoKey, hdr |-> 0]

\* Uuid::new_v4().to_string(), the t-th draw
Uuid(t) == "uuid" \o ToString(t)

DmNames == {d.name : d \in dm}
DmNode(x) == CHOOSE d \in dm : d.name = x

\* the device is held open by a mount
DmBusy(x) == \E n \in Names : \E i \in 1 .. Len(mounts[n]) : mounts[n][i] = x

\* the image file exists; dd made it 1 GiB long (bs=1G seek=1)
ImgExists(n) == img[n].st # "none"
ImageSize == 1073741824
ImgLen(n) == IF ImgExists(n) THEN ImageSize ELSE 0
\* crypt_load finds a LUKS1 header on it
ImgIsLuks(n) == img[n].st \in {"hdr", "luks", "ext4"}

-----------------------------------------------------------------------------
(* The request handlers *)

\* what a request on the name n finds when it is accepted
Snapshot(n) ==
    [dataDir |-> dataDir[n], img |-> img[n], keyfile |-> keyfile[n],
     mountDir |-> mountDir[n], mounts |-> mounts[n], dm |-> dm,
     faults |-> faults, life |-> life[n]]

NoSnapshot ==
    [dataDir |-> FALSE, img |-> NoImg, keyfile |-> NoFile,
     mountDir |-> FALSE, mounts |-> <<>>, dm |-> {}, faults |-> 0,
     life |-> <<>>]

Idle == [op |-> "idle", name |-> "", id |-> "", pc |-> "idle", key |-> NoKey,
         tok |-> 0, tried |-> <<>>, made |-> FALSE, active |-> FALSE,
         why |-> "", res |-> "", pre |-> NoSnapshot, bad |-> FALSE,
         mp |-> "", vols |-> <<>>, blob |-> NoKey, dd |-> ""]

\* a call into the environment fails although the state would let it succeed
Fault == faults < MaxFaults /\ faults' = faults + 1
NoFault == faults' = faults

\* The handler has made the calls `steps` and moves on: to the next call, to
\* the error arm of create's do_steps (why is the error), or to its return.
\* tried lists the calls the handler has made so far.
Goto(p, steps, pc) ==
    h' = [h EXCEPT ![p].pc = pc, ![p].tried = @ \o steps]
Fail(p, steps, why) ==
    h' = [h EXCEPT ![p].pc = "c_cleanup", ![p].why = why, ![p].tried = @ \o steps]
Return(p, steps, res) ==
    h' = [h EXCEPT ![p].pc = "done", ![p].res = res, ![p].tried = @ \o steps]

\* the worker threads are alike: the first free one takes the next request
FirstIdle(p) ==
    \E k \in DOMAIN Workers :
        /\ Workers[k] = p
        /\ h[p].op = "idle"
        /\ \A j \in 1 .. k - 1 : h[Workers[j]].op # "idle"

Accept(p) ==
    /\ srv.pc = "listening"
    /\ FirstIdle(p)
    /\ ops < MaxOps
    /\ ops' = ops + 1
    /\ IF \A q \in Procs : h[q].op = "idle"
       THEN par' = par
       ELSE par < MaxPar /\ par' = par + 1
    /\ par' > 0 => ops' <= MaxParOps

\* the dispatcher once start has bound the socket and the server runs
Listening == [pc |-> "listening", sock |-> "bound", found |-> "none",
              unlink |-> "NotFound", why |-> ""]

Init ==
    /\ hsm \in HSMs
    /\ dataDir = [n \in Names |-> FALSE]
    /\ img = [n \in Names |-> NoImg]
    /\ keyfile = [n \in Names |-> NoFile]
    /\ mountDir = [n \in Names |-> FALSE]
    /\ dm = {}
    /\ mounts = [n \in Names |-> <<>>]
    /\ h = [p \in Procs |-> Idle]
    /\ faults = 0
    /\ ops = 0
    /\ par = 0
    /\ life = [n \in Names |-> <<>>]
    /\ srv = Listening

-----------------------------------------------------------------------------
(* LuksVolumeDriver::create *)

\* CreateStart with a UUID that is not drawn afresh: every create names its
\* throwaway device the same
CreateStart_FixedUuid(p, n) ==
    /\ Accept(p)
    /\ h' = [h EXCEPT ![p] = [Idle EXCEPT !.op = "create", !.name = n,
                 !.pc = "c_mkdir", !.tok = 1, !.pre = Snapshot(n),
                 !.key = random_bytes(hsm, ops + 1)]]
    /\ UNCHANGED <<srv, life, hsm, dataDir, img, keyfile, mountDir, dm, mounts, faults>>

\* handle_volume_create calls create, which draws the key from the HSM
CreateStart(p, n) ==
    /\ Accept(p)
    /\ h' = [h EXCEPT ![p] = [Idle EXCEPT !.op = "create", !.name = n,
                 !.pc = "c_mkdir", !.tok = ops + 1, !.pre = Snapshot(n),
                 !.key = random_bytes(hsm, ops + 1)]]
    /\ UNCHANGED <<srv, life, hsm, dataDir, img, keyfile, mountDir, dm, mounts, faults>>

\* fs::create_dir_all(volume_dir)
CreateMkdir(p) ==
    /\ h[p].pc = "c_mkdir"
    /\ \/ /\ NoFault
          /\ dataDir' = [dataDir EXCEPT ![h[p].name] = TRUE]
          /\ Goto(p, <<"mkdir">>, "c_dd")
       \/ /\ Fault
          /\ UNCHANGED dataDir
          /\ Fail(p, <<"mkdir">>, "mkdir")
    /\ UNCHANGED <<srv, life, hsm, img, keyfile, mountDir, dm, mounts, ops, par>>

\* Command::status() of dd returned st ("exit0", "exit1": dd ran and exited with
\* that status; "spawn": dd could not be started) and create_disk_image maps
\* it: the handler goes on to pc, or to the error arm when pc is "c_cleanup"
DdReturned(p, st, pc) ==
    h' = [h EXCEPT ![p].pc = pc, ![p].tried = @ \o <<"dd">>, ![p].dd = st,
                   ![p].why = IF pc = "c_cleanup" THEN "dd" ELSE @]

\* CreateDd with the exit status of dd looked at: a dd that exits with a
\* non-zero status fails create at this step
CreateDd_StatusChecked(p) ==
    /\ h[p].pc = "c_dd"
    /\ LET n == h[p].name IN
       \/ /\ NoFault
          /\ dataDir[n]
          /\ img' = [img EXCEPT ![n] =
                        IF @.st = "none" THEN [NoImg EXCEPT !.st = "raw"] ELSE @]
          /\ DdReturned(p, "exit0", "c_format")
       \/ /\ NoFault
          /\ ~dataDir[n]
          /\ UNCHANGED img
          /\ DdReturned(p, "exit1", "c_cleanup")
       \/ /\ Fault
          /\ UNCHANGED img
          /\ DdReturned(p, "exit1", "c_cleanup")
       \/ /\ Fault
          /\ UNCHANGED img
          /\ DdReturned(p, "spawn", "c_cleanup")
    /\ UNCHANGED <<srv, life, hsm, dataDir, keyfile, mountDir, dm, mounts, ops, par>>

\* create_disk_image: dd if=/dev/zero of=volume.img bs=1G count=0 seek=1.  Only
\* a dd that cannot be started is an error; the exit status is dropped.  dd
\* extends the file to 1 GiB and keeps what an existing file holds.
CreateDd(p) ==
    /\ h[p].pc = "c_dd"
    /\ LET n == h[p].name IN
       \/ /\ NoFault
          /\ dataDir[n]
          /\ img' = [img EXCEPT ![n] =
                        IF @.st = "none" THEN [NoImg EXCEPT !.st = "raw"] ELSE @]
          /\ DdReturned(p, "exit0", "c_format")
       \/ /\ NoFault
          /\ ~dataDir[n]
          /\ UNCHANGED img
          /\ DdReturned(p, "exit1", "c_format")
       \/ /\ Fault
          /\ UNCHANGED img
          /\ DdReturned(p, "exit1", "c_format")
       \/ /\ Fault
          /\ UNCHANGED img
          /\ DdReturned(p, "spawn", "c_cleanup")
    /\ UNCHANGED <<srv, life, hsm, dataDir, keyfile, mountDir, dm, mounts, ops, par>>

\* format_luks_device: format(image), luks1(aes, xts-plain, sha256, 256, uuid),
\* add_keyslot(key)
CreateFormat(p) ==
    /\ h[p].pc = "c_format"
    /\ LET n == h[p].name IN
       \/ /\ NoFault
          /\ ImgExists(n)
          /\ img' = [img EXCEPT ![n] =
                        [st |-> "luks", slot |-> h[p].key, hdr |-> h[p].tok]]
          /\ Goto(p, <<"format">>, "c_activate")
       \/ /\ NoFault
          /\ ~ImgExists(n)
          /\ UNCHANGED img
          /\ Fail(p, <<"format">>, "format")
       \/ /\ Fault
          /\ UNCHANGED img
          /\ Fail(p, <<"format">>, "format")
       \/ /\ Fault
          /\ ImgExists(n)
          /\ img' = [img EXCEPT ![n] =
                        [st |-> "hdr", slot |-> NoKey, hdr |-> h[p].tok]]
          /\ Fail(p, <<"format">>, "format")
    /\ UNCHANGED <<srv, life, hsm, dataDir, keyfile, mountDir, dm, mounts, ops, par>>

\* activate_luks_device(name, image, key) can succeed: the image opens as
\* LUKS1, the key opens a keyslot and no device of that name is active
CanActivate(x, n, key) ==
    /\ img[n].st \in {"luks", "ext4"}
    /\ img[n].slot = key
    /\ x \notin DmNames

\* the device-mapper node activate creates
Activated(x, n) ==
    [name |-> x, vol |-> n, hdr |-> img[n].hdr, fs |-> img[n].st = "ext4"]

\* deactivate_luks_device(name, image) can succeed: the image opens as LUKS1
\* and the device of that name is active and not in use
CanDeactivate(x, n) ==
    /\ ImgIsLuks(n)
    /\ x \in DmNames
    /\ ~DmBusy(x)

\* activate_luks_device(&uuid, &volume_img, &secret_key)
CreateActivate(p) ==
    /\ h[p].pc = "c_activate"
    /\ LET n == h[p].name
           x == Uuid(h[p].tok) IN
       \/ /\ NoFault
          /\ CanActivate(x, n, h[p].key)
          /\ dm' = dm \cup {Activated(x, n)}
          /\ Goto(p, <<"activate">>, "c_mkfs")
       \/ /\ NoFault
          /\ ~CanActivate(x, n, h[p].key)
          /\ UNCHANGED dm
          /\ Fail(p, <<"activate">>, "activate")
       \/ /\ Fault
          /\ UNCHANGED dm
          /\ Fail(p, <<"activate">>, "activate")
    /\ UNCHANGED <<srv, life, hsm, dataDir, img, keyfile, mountDir, mounts, ops, par>>

\* mkfs on a device writes the file system through the mapping: every node of
\* the same header sees it, and so does the image when it still carries it
MkfsDm(x) ==
    {IF d.hdr = DmNode(x).hdr THEN [d EXCEPT !.fs = TRUE] ELSE d : d \in dm}
MkfsImg(x) ==
    [n \in Names |->
        IF n = DmNode(x).vol /\ img[n].hdr = DmNode(x).hdr /\ img[n].st = "luks"
        THEN [img[n] EXCEPT !.st = "ext4"] ELSE img[n]]

\* CreateMkfs with the exit status of mkfs dropped, as dd's is: a failed mkfs
\* lets create go on
CreateMkfs_StatusDropped(p) ==
    /\ h[p].pc = "c_mkfs"
    /\ LET x == Uuid(h[p].tok) IN
       \/ /\ NoFault
          /\ x \in DmNames
          /\ dm' = MkfsDm(x)
          /\ img' = MkfsImg(x)
          /\ Goto(p, <<"mkfs">>, "c_deactivate")
       \/ /\ NoFault
          /\ x \notin DmNames
          /\ UNCHANGED <<dm, img>>
          /\ Goto(p, <<"mkfs">>, "c_deactivate")
       \/ /\ Fault
          /\ UNCHANGED <<dm, img>>
          /\ Goto(p, <<"mkfs">>, "c_deactivate")
    /\ UNCHANGED <<srv, life, hsm, dataDir, keyfile, mountDir, mounts, ops, par>>

\* format_block_device(/dev/mapper/<uuid>, Ext4)
CreateMkfs(p) ==
    /\ h[p].pc = "c_mkfs"
    /\ LET x == Uuid(h[p].tok) IN
       \/ /\ NoFault
          /\ x \in DmNames
          /\ dm' = MkfsDm(x)
          /\ img' = MkfsImg(x)
          /\ Goto(p, <<"mkfs">>, "c_deactivate")
       \/ /\ NoFault
          /\ x \notin DmNames
          /\ UNCHANGED <<dm, img>>
          /\ Fail(p, <<"mkfs">>, "mkfs")
       \/ /\ Fault
          /\ UNCHANGED <<dm, img>>
          /\ Fail(p, <<"mkfs">>, "mkfs")
    /\ UNCHANGED <<srv, life, hsm, dataDir, keyfile, mountDir, mounts, ops, par>>

\* deactivate_luks_device(&uuid, &volume_img); Ok ends do_steps
CreateDeactivate(p) ==
    /\ h[p].pc = "c_deactivate"
    /\ LET n == h[p].name
           x == Uuid(h[p].tok) IN
       \/ /\ NoFault
          /\ CanDeactivate(x, n)
          /\ dm' = dm \ {DmNode(x)}
          /\ Goto(p, <<"deactivate">>, "c_store")
       \/ /\ NoFault
          /\ ~CanDeactivate(x, n)
          /\ UNCHANGED dm
          /\ Fail(p, <<"deactivate">>, "deactivate")
       \/ /\ Fault
          /\ UNCHANGED dm
          /\ Fail(p, <<"deactivate">>, "deactivate")
    /\ UNCHANGED <<srv, life, hsm, dataDir, img, keyfile, mountDir, mounts, ops, par>>

\* fs::remove_dir_all(<data_dir>/<n>) removes the directory and its files
RemoveVolumeDir(n) ==
    /\ dataDir' = [dataDir EXCEPT ![n] = FALSE]
    /\ img' = [img EXCEPT ![n] = NoImg]
    /\ keyfile' = [keyfile EXCEPT ![n] = NoFile]

\* CreateCleanup that removes the volume directory only when this create made
\* it, and spares a directory that was there before
CreateCleanup_SparesEarlier(p) ==
    /\ h[p].pc = "c_cleanup"
    /\ LET n == h[p].name IN
       \/ /\ NoFault
          /\ dataDir[n] /\ ~h[p].pre.dataDir
          /\ RemoveVolumeDir(n)
          /\ Return(p, <<"remove_dir_all">>, h[p].why)
       \/ /\ NoFault
          /\ dataDir[n] /\ h[p].pre.dataDir
          /\ UNCHANGED <<dataDir, img, keyfile>>
          /\ Return(p, <<>>, h[p].why)
       \/ /\ NoFault
          /\ ~dataDir[n]
          /\ UNCHANGED <<dataDir, img, keyfile>>
          /\ Return(p, <<"remove_dir_all">>, "remove_dir_all")
       \/ /\ Fault
          /\ UNCHANGED <<dataDir, img, keyfile>>
          /\ Return(p, <<"remove_dir_all">>, "remove_dir_all")
    /\ UNCHANGED <<srv, life, hsm, mountDir, dm, mounts, ops, par>>

\* if let Err(why) = do_steps(): remove_dir_all(volume_dir)?, then
\* Err("Unable to create volume ..: why")
CreateCleanup(p) ==
    /\ h[p].pc = "c_cleanup"
    /\ LET n == h[p].name IN
       \/ /\ NoFault
          /\ dataDir[n]
          /\ RemoveVolumeDir(n)
          /\ Return(p, <<"remove_dir_all">>, h[p].why)
       \/ /\ NoFault
          /\ ~dataDir[n]
          /\ UNCHANGED <<dataDir, img, keyfile>>
          /\ Return(p, <<"remove_dir_all">>, "remove_dir_all")
       \/ /\ Fault
          /\ UNCHANGED <<dataDir, img, keyfile>>
          /\ Return(p, <<"remove_dir_all">>, "remove_dir_all")
    /\ UNCHANGED <<srv, life, hsm, mountDir, dm, mounts, ops, par>>

\* CreateStore with the result of fs::write dropped: create answers Ok although
\* the keyfile was not written
CreateStore_WriteErrorDropped(p) ==
    /\ h[p].pc = "c_store"
    /\ LET n == h[p].name IN
       \/ /\ NoFault
          /\ dataDir[n]
          /\ keyfile' = [keyfile EXCEPT ![n] = encrypt(hsm, h[p].key)]
          /\ Return(p, <<"store">>, "ok")
       \/ /\ NoFault
          /\ ~dataDir[n]
          /\ UNCHANGED keyfile
          /\ Return(p, <<"store">>, "ok")
       \/ /\ Fault
          /\ hsm = "cloud"
          /\ UNCHANGED keyfile
          /\ Return(p, <<"store">>, "encrypt")
       \/ /\ Fault
          /\ UNCHANGED keyfile
          /\ Return(p, <<"store">>, "ok")
       \/ /\ Fault
          /\ dataDir[n]
          /\ keyfile' = [keyfile EXCEPT ![n] = Prefix(encrypt(hsm, h[p].key), 0)]
          /\ Return(p, <<"store">>, "ok")
    /\ UNCHANGED <<srv, life, hsm, dataDir, img, mountDir, dm, mounts, ops, par>>

\* store_luks_key: hsm.encrypt(key)?, fs::write(keyfile, blob)?.  fs::write
\* creates (truncates) the file and then writes: an error of the open leaves
\* the directory as it was, an error of the write leaves the file cut short.
CreateStore(p) ==
    /\ h[p].pc = "c_store"
    /\ LET n == h[p].name IN
       \/ /\ NoFault
          /\ dataDir[n]
          /\ keyfile' = [keyfile EXCEPT ![n] = encrypt(hsm, h[p].key)]
          /\ Return(p, <<"store">>, "ok")
       \/ /\ NoFault
          /\ ~dataDir[n]
          /\ UNCHANGED keyfile
          /\ Return(p, <<"store">>, "write")
       \/ /\ Fault
          /\ hsm = "cloud"
          /\ UNCHANGED keyfile
          /\ Return(p, <<"store">>, "encrypt")
       \/ /\ Fault
          /\ UNCHANGED keyfile
          /\ Return(p, <<"store">>, "write")
       \/ /\ Fault
          /\ dataDir[n]
          /\ keyfile' = [keyfile EXCEPT ![n] = Prefix(encrypt(hsm, h[p].key), 0)]
          /\ Return(p, <<"store">>, "write")
    /\ UNCHANGED <<srv, life, hsm, dataDir, img, mountDir, dm, mounts, ops, par>>

-----------------------------------------------------------------------------
(* LuksVolumeDriver::remove *)

RemoveStart(p, n) ==
    /\ Accept(p)
    /\ h' = [h EXCEPT ![p] = [Idle EXCEPT !.op = "remove", !.name = n,
                                          !.pc = "r_rm", !.pre = Snapshot(n)]]
    /\ UNCHANGED <<srv, life, hsm, dataDir, img, keyfile, mountDir, dm, mounts, faults>>

\* RemoveRm that deletes the two files and leaves the volume directory
RemoveRm_FilesOnly(p) ==
    /\ h[p].pc = "r_rm"
    /\ LET n == h[p].name IN
       \/ /\ NoFault
          /\ dataDir[n]
          /\ img' = [img EXCEPT ![n] = NoImg]
          /\ keyfile' = [keyfile EXCEPT ![n] = NoFile]
          /\ UNCHANGED dataDir
          /\ Return(p, <<"remove_dir_all">>, "ok")
       \/ /\ NoFault
          /\ ~dataDir[n]
          /\ UNCHANGED <<dataDir, img, keyfile>>
          /\ Return(p, <<"remove_dir_all">>, "remove_dir_all")
       \/ /\ Fault
          /\ UNCHANGED <<dataDir, img, keyfile>>
          /\ Return(p, <<"remove_dir_all">>, "remove_dir_all")
    /\ UNCHANGED <<srv, life, hsm, mountDir, dm, mounts, ops, par>>

\* RemoveRm that refuses a volume that is mounted
RemoveRm_RefusesMounted(p) ==
    /\ h[p].pc = "r_rm"
    /\ LET n == h[p].name IN
       \/ /\ NoFault
          /\ dataDir[n] /\ mounts[n] = <<>>
          /\ RemoveVolumeDir(n)
          /\ Return(p, <<"remove_dir_all">>, "ok")
       \/ /\ NoFault
          /\ dataDir[n] /\ mounts[n] # <<>>
          /\ UNCHANGED <<dataDir, img, keyfile>>
          /\ Return(p, <<>>, "mounted")
       \/ /\ NoFault
          /\ ~dataDir[n]
          /\ UNCHANGED <<dataDir, img, keyfile>>
          /\ Return(p, <<"remove_dir_all">>, "remove_dir_all")
       \/ /\ Fault
          /\ UNCHANGED <<dataDir, img, keyfile>>
          /\ Return(p, <<"remove_dir_all">>, "remove_dir_all")
    /\ UNCHANGED <<srv, life, hsm, mountDir, dm, mounts, ops, par>>

\* fs::remove_dir_all(volume_dir)
RemoveRm(p) ==
    /\ h[p].pc = "r_rm"
    /\ LET n == h[p].name IN
       \/ /\ NoFault
          /\ dataDir[n]
          /\ RemoveVolumeDir(n)
          /\ Return(p, <<"remove_dir_all">>, "ok")
       \/ /\ NoFault
          /\ ~dataDir[n]
          /\ UNCHANGED <<dataDir, img, keyfile>>
          /\ Return(p, <<"remove_dir_all">>, "remove_dir_all")
       \/ /\ Fault
          /\ UNCHANGED <<dataDir, img, keyfile>>
          /\ Return(p, <<"remove_dir_all">>, "remove_dir_all")
    /\ UNCHANGED <<srv, life, hsm, mountDir, dm, mounts, ops, par>>

-----------------------------------------------------------------------------
(* LuksVolumeDriver::mount *)

\* <mount_dir>/<n>
MountPoint(n) == "<mount_dir>/" \o n

MountStart(p, n, i) ==
    /\ Accept(p)
    /\ h' = [h EXCEPT ![p] = [Idle EXCEPT !.op = "mount", !.name = n, !.id = i,
                                          !.pc = "m_key", !.pre = Snapshot(n)]]
    /\ UNCHANGED <<srv, life, hsm, dataDir, img, keyfile, mountDir, dm, mounts, faults>>

\* MountKey that goes on without a key when get_luks_key fails, and lets the
\* activation fail instead
MountKey_ErrorDeferred(p) ==
    /\ h[p].pc = "m_key"
    /\ LET n == h[p].name IN
       \/ /\ NoFault
          /\ keyfile[n] # NoFile
          /\ decrypt_ok(hsm, keyfile[n])
          /\ h' = [h EXCEPT ![p].pc = "m_mkdir",
                            ![p].tried = @ \o <<"get_luks_key">>,
                            ![p].key = decrypt(hsm, keyfile[n])]
       \/ /\ NoFault
          /\ keyfile[n] = NoFile \/ ~decrypt_ok(hsm, keyfile[n])
          /\ Goto(p, <<"get_luks_key">>, "m_mkdir")
       \/ /\ Fault
          /\ keyfile[n] # NoFile
          /\ Goto(p, <<"get_luks_key">>, "m_mkdir")
    /\ UNCHANGED <<srv, life, hsm, dataDir, img, keyfile, mountDir, dm, mounts, ops, par>>

\* get_luks_key: fs::metadata(keyfile)?, fs::read(keyfile)?, hsm.decrypt(data)?;
\* an error leaves mount before do_steps
MountKey(p) ==
    /\ h[p].pc = "m_key"
    /\ LET n == h[p].name IN
       \/ /\ NoFault
          /\ keyfile[n] # NoFile
          /\ decrypt_ok(hsm, keyfile[n])
          /\ h' = [h EXCEPT ![p].pc = "m_mkdir",
                            ![p].tried = @ \o <<"get_luks_key">>,
                            ![p].key = decrypt(hsm, keyfile[n])]
       \/ /\ NoFault
          /\ keyfile[n] = NoFile
          /\ Return(p, <<"get_luks_key">>, "metadata")
       \/ /\ NoFault
          /\ keyfile[n] # NoFile
          /\ ~decrypt_ok(hsm, keyfile[n])
          /\ Return(p, <<"get_luks_key">>,
                    "decrypt: " \o Display(DecryptError(hsm, keyfile[n])))
       \/ /\ Fault
          /\ keyfile[n] # NoFile
          /\ Return(p, <<"get_luks_key">>,
                    IF hsm = "cloud"
                    THEN "decrypt: " \o Display(DecryptError(hsm, keyfile[n]))
                    ELSE "read")
    /\ UNCHANGED <<srv, life, hsm, dataDir, img, keyfile, mountDir, dm, mounts, ops, par>>

\* fs::create_dir_all(mount_dir)
MountMkdir(p) ==
    /\ h[p].pc = "m_mkdir"
    /\ \/ /\ NoFault
          /\ mountDir' = [mountDir EXCEPT ![h[p].name] = TRUE]
          /\ h' = [h EXCEPT ![p].pc = "m_activate",
                            ![p].tried = @ \o <<"mkdir">>,
                            ![p].made = ~mountDir[h[p].name]]
       \/ /\ Fault
          /\ UNCHANGED mountDir
          /\ Return(p, <<"mkdir">>, "mkdir")
    /\ UNCHANGED <<srv, life, hsm, dataDir, img, keyfile, dm, mounts, ops, par>>

\* activate_luks_device(&id, &volume_img, &secret_key)
MountActivate(p) ==
    /\ h[p].pc = "m_activate"
    /\ LET n == h[p].name
           x == h[p].id IN
       \/ /\ NoFault
          /\ CanActivate(x, n, h[p].key)
          /\ dm' = dm \cup {Activated(x, n)}
          /\ Goto(p, <<"activate">>, "m_mount")
       \/ /\ NoFault
          /\ ~CanActivate(x, n, h[p].key)
          /\ UNCHANGED dm
          /\ Return(p, <<"activate">>, "activate")
       \/ /\ Fault
          /\ UNCHANGED dm
          /\ Return(p, <<"activate">>, "activate")
    /\ UNCHANGED <<srv, life, hsm, dataDir, img, keyfile, mountDir, mounts, ops, par>>

\* Mount::new(src, mount_dir, ..) can succeed: the device is active and holds
\* a file system, and the mount directory exists
CanMount(x, n) ==
    /\ x \in DmNames
    /\ DmNode(x).fs
    /\ mountDir[n]

\* SupportedFilesystems::new()?, Mount::new(src, mount_dir, ..); the error of
\* do_steps is returned with nothing tidied up
MountMount(p) ==
    /\ h[p].pc = "m_mount"
    /\ LET n == h[p].name
           x == h[p].id IN
       \/ /\ NoFault
          /\ CanMount(x, n)
          /\ mounts' = [mounts EXCEPT ![n] = Append(@, x)]
          /\ h' = [h EXCEPT ![p].pc = "done", ![p].res = "ok",
                            ![p].tried = @ \o <<"probe", "mount">>,
                            ![p].mp = MountPoint(n)]
       \/ /\ NoFault
          /\ ~CanMount(x, n)
          /\ UNCHANGED mounts
          /\ Return(p, <<"probe", "mount">>, "mount")
       \/ /\ Fault
          /\ UNCHANGED mounts
          /\ Return(p, <<"probe">>, "probe")
       \/ /\ Fault
          /\ UNCHANGED mounts
          /\ Return(p, <<"probe", "mount">>, "mount")
    /\ UNCHANGED <<srv, life, hsm, dataDir, img, keyfile, mountDir, dm, ops, par>>

-----------------------------------------------------------------------------
(* LuksVolumeDriver::unmount *)

\* the volume n is Active(i): mounted at <mount_dir>/<n> from /dev/mapper/<i>
IsActive(n, i) ==
    /\ mountDir[n]
    /\ mounts[n] # <<>>
    /\ mounts[n][Len(mounts[n])] = i
    /\ i \in DmNames

UnmountStart(p, n, i) ==
    /\ Accept(p)
    /\ h' = [h EXCEPT ![p] = [Idle EXCEPT !.op = "unmount", !.name = n,
                                          !.id = i, !.pc = "u_umount",
                                          !.pre = Snapshot(n),
                                          !.active = IsActive(n, i)]]
    /\ UNCHANGED <<srv, life, hsm, dataDir, img, keyfile, mountDir, dm, mounts, faults>>

\* UnmountUmount with the error of sys_mount::unmount dropped: unmount goes on
\* to the deactivation
UnmountUmount_ErrorDropped(p) ==
    /\ h[p].pc = "u_umount"
    /\ LET n == h[p].name IN
       \/ /\ NoFault
          /\ mounts[n] # <<>>
          /\ mounts' = [mounts EXCEPT ![n] = SubSeq(@, 1, Len(@) - 1)]
          /\ Goto(p, <<"umount">>, "u_deactivate")
       \/ /\ NoFault
          /\ mounts[n] = <<>>
          /\ UNCHANGED mounts
          /\ Goto(p, <<"umount">>, "u_deactivate")
       \/ /\ Fault
          /\ UNCHANGED mounts
          /\ Goto(p, <<"umount">>, "u_deactivate")
    /\ UNCHANGED <<srv, life, hsm, dataDir, img, keyfile, mountDir, dm, ops, par>>

\* sys_mount::unmount(mnt_dir, FORCE)?: detaches the topmost mount
UnmountUmount(p) ==
    /\ h[p].pc = "u_umount"
    /\ LET n == h[p].name IN
       \/ /\ NoFault
          /\ mounts[n] # <<>>
          /\ mounts' = [mounts EXCEPT ![n] = SubSeq(@, 1, Len(@) - 1)]
          /\ Goto(p, <<"umount">>, "u_deactivate")
       \/ /\ NoFault
          /\ mounts[n] = <<>>
          /\ UNCHANGED mounts
          /\ Return(p, <<"umount">>, "umount")
       \/ /\ Fault
          /\ UNCHANGED mounts
          /\ Return(p, <<"umount">>, "umount")
    /\ UNCHANGED <<srv, life, hsm, dataDir, img, keyfile, mountDir, dm, ops, par>>

\* UnmountDeactivate with the error of deactivate_luks_device dropped: unmount
\* goes on to remove the mount directory
UnmountDeactivate_ErrorDropped(p) ==
    /\ h[p].pc = "u_deactivate"
    /\ LET n == h[p].name
           x == h[p].id IN
       \/ /\ NoFault
          /\ CanDeactivate(x, n)
          /\ dm' = dm \ {DmNode(x)}
          /\ Goto(p, <<"deactivate">>, "u_rmdir")
       \/ /\ NoFault
          /\ ~CanDeactivate(x, n)
          /\ UNCHANGED dm
          /\ Goto(p, <<"deactivate">>, "u_rmdir")
       \/ /\ Fault
          /\ UNCHANGED dm
          /\ Goto(p, <<"deactivate">>, "u_rmdir")
    /\ UNCHANGED <<srv, life, hsm, dataDir, img, keyfile, mountDir, mounts, ops, par>>

\* UnmountDeactivate without the call of deactivate_luks_device: unmount goes
\* from the umount straight to the removal of the mount directory
UnmountDeactivate_Skipped(p) ==
    /\ h[p].pc = "u_deactivate"
    /\ NoFault
    /\ UNCHANGED dm
    /\ Goto(p, <<>>, "u_rmdir")
    /\ UNCHANGED <<srv, life, hsm, dataDir, img, keyfile, mountDir, mounts, ops, par>>

\* deactivate_luks_device(&id, &volume_img)?
UnmountDeactivate(p) ==
    /\ h[p].pc = "u_deactivate"
    /\ LET n == h[p].name
           x == h[p].id IN
       \/ /\ NoFault
          /\ CanDeactivate(x, n)
          /\ dm' = dm \ {DmNode(x)}
          /\ Goto(p, <<"deactivate">>, "u_rmdir")
       \/ /\ NoFault
          /\ ~CanDeactivate(x, n)
          /\ UNCHANGED dm
          /\ Return(p, <<"deactivate">>, "deactivate")
       \/ /\ Fault
          /\ UNCHANGED dm
          /\ Return(p, <<"deactivate">>, "deactivate")
    /\ UNCHANGED <<srv, life, hsm, dataDir, img, keyfile, mountDir, mounts, ops, par>>

\* UnmountRmdir that removes the volume directory with the mount directory
UnmountRmdir_VolumeDirToo(p) ==
    /\ h[p].pc = "u_rmdir"
    /\ LET n == h[p].name IN
       \/ /\ NoFault
          /\ mountDir[n] /\ mounts[n] = <<>>
          /\ mountDir' = [mountDir EXCEPT ![n] = FALSE]
          /\ RemoveVolumeDir(n)
          /\ Return(p, <<"remove_dir_all">>, "ok")
       \/ /\ NoFault
          /\ ~(mountDir[n] /\ mounts[n] = <<>>)
          /\ UNCHANGED <<mountDir, dataDir, img, keyfile>>
          /\ Return(p, <<"remove_dir_all">>, "remove_dir_all")
       \/ /\ Fault
          /\ UNCHANGED <<mountDir, dataDir, img, keyfile>>
          /\ Return(p, <<"remove_dir_all">>, "remove_dir_all")
    /\ UNCHANGED <<srv, life, hsm, dm, mounts, ops, par>>

\* fs::remove_dir_all(mnt_dir)?: a directory something is mounted on cannot be
\* removed
UnmountRmdir(p) ==
    /\ h[p].pc = "u_rmdir"
    /\ LET n == h[p].name IN
       \/ /\ NoFault
          /\ mountDir[n] /\ mounts[n] = <<>>
          /\ mountDir' = [mountDir EXCEPT ![n] = FALSE]
          /\ Return(p, <<"remove_dir_all">>, "ok")
       \/ /\ NoFault
          /\ ~(mountDir[n] /\ mounts[n] = <<>>)
          /\ UNCHANGED mountDir
          /\ Return(p, <<"remove_dir_all">>, "remove_dir_all")
       \/ /\ Fault
          /\ UNCHANGED mountDir
          /\ Return(p, <<"remove_dir_all">>, "remove_dir_all")
    /\ UNCHANGED <<srv, life, hsm, dataDir, img, keyfile, dm, mounts, ops, par>>

-----------------------------------------------------------------------------
(* LuksVolumeDriver::path, get, list: one read of the file system each *)

Some(x) == <<x>>
None == <<>>

\* path that answers only for a volume whose directory exists under <data_dir>
path_ChecksVolume(p, n) ==
    /\ Accept(p)
    /\ h' = [h EXCEPT ![p] = [Idle EXCEPT !.op = "path", !.name = n,
                 !.pc = "done",
                 !.res = IF mountDir[n] /\ dataDir[n] THEN "ok" ELSE "metadata",
                 !.mp = IF mountDir[n] /\ dataDir[n] THEN MountPoint(n) ELSE ""]]
    /\ UNCHANGED <<srv, life, hsm, dataDir, img, keyfile, mountDir, dm, mounts, faults>>

\* fs::metadata(<mount_dir>/<n>)
path(p, n) ==
    /\ Accept(p)
    /\ h' = [h EXCEPT ![p] = [Idle EXCEPT !.op = "path", !.name = n,
                 !.pc = "done",
                 !.res = IF mountDir[n] THEN "ok" ELSE "metadata",
                 !.mp = IF mountDir[n] THEN MountPoint(n) ELSE ""]]
    /\ UNCHANGED <<srv, life, hsm, dataDir, img, keyfile, mountDir, dm, mounts, faults>>

\* fs::metadata(volume.img)?, then the mount directory as in path
get(p, n) ==
    /\ Accept(p)
    /\ h' = [h EXCEPT ![p] = [Idle EXCEPT !.op = "get", !.name = n,
                 !.pc = "done",
                 !.res = IF ImgExists(n) THEN "ok" ELSE "metadata",
                 !.vols = IF ImgExists(n)
                          THEN <<[name |-> n,
                                  mountpoint |-> IF mountDir[n]
                                                 THEN Some(MountPoint(n))
                                                 ELSE None]>>
                          ELSE <<>>]]
    /\ UNCHANGED <<srv, life, hsm, dataDir, img, keyfile, mountDir, dm, mounts, faults>>

\* the sequences that hold every element of S once: the orders read_dir may
\* enumerate a directory in
Enumerations(S) ==
    {e \in [1 .. Cardinality(S) -> S] : \A x \in S : \E i \in DOMAIN e : e[i] = x}

\* fs::read_dir(data_dir), the directories among the entries
list(p) ==
    /\ Accept(p)
    /\ \E e \in Enumerations({n \in Names : dataDir[n]}) :
          h' = [h EXCEPT ![p] = [Idle EXCEPT !.op = "list", !.pc = "done",
                   !.res = "ok",
                   !.vols = [i \in DOMAIN e |->
                                [name |-> e[i], mountpoint |-> Some("")]]]]
    /\ UNCHANGED <<srv, life, hsm, dataDir, img, keyfile, mountDir, dm, mounts, faults>>

-----------------------------------------------------------------------------
(* Requests that carry no valid body or name no route *)

\* the endpoints whose handler takes the body through the RpcRequest extractor
Extracting == {"create", "remove", "mount", "path", "unmount", "get"}

\* RpcRequest::from_request fails on a body that is not the JSON of the request
\* type: the handler of the route is not called
Malformed(p, ep) ==
    /\ Accept(p)
    /\ ep \in Extracting
    /\ h' = [h EXCEPT ![p] = [Idle EXCEPT !.op = "malformed", !.pc = "done",
                                          !.bad = TRUE, !.res = "extract"]]
    /\ UNCHANGED <<srv, life, hsm, dataDir, img, keyfile, mountDir, dm, mounts, faults>>

\* /VolumeDriver.List takes no body: its handler calls list() whatever was sent
MalformedList(p) ==
    /\ Accept(p)
    /\ \E e \in Enumerations({n \in Names : dataDir[n]}) :
          h' = [h EXCEPT ![p] = [Idle EXCEPT !.op = "list", !.pc = "done",
                   !.bad = TRUE, !.res = "ok",
                   !.vols = [i \in DOMAIN e |->
                                [name |-> e[i], mountpoint |-> Some("")]]]]
    /\ UNCHANGED <<srv, life, hsm, dataDir, img, keyfile, mountDir, dm, mounts, faults>>

\* a POST to a path that is not in the route table
UnknownRoute(p) ==
    /\ Accept(p)
    /\ h' = [h EXCEPT ![p] = [Idle EXCEPT !.op = "unknown", !.pc = "done",
                                          !.res = "no route"]]
    /\ UNCHANGED <<srv, life, hsm, dataDir, img, keyfile, mountDir, dm, mounts, faults>>

-----------------------------------------------------------------------------
(* The dispatcher *)

\* what the driver call of the handler p returned: Ok with its value, or
\* Err with the error string
Result(p) ==
    [ok |-> h[p].res = "ok", err |-> IF h[p].res = "ok" THEN "" ELSE h[p].res,
     mp |-> h[p].mp, vols |-> h[p].vols]

\* HttpResponse::Ok().json(..): RpcError::default(), MountVolumeResponse,
\* GetVolumeResponse and ListVolumesResponse all carry an empty Err
RpcOk(mp, vols) ==
    [status |-> 200, json |-> TRUE, err |-> "", mountpoint |-> mp, volumes |-> vols]

\* HttpResponse::BadRequest().json(RpcError::from_str(&e))
RpcErr(e) ==
    [status |-> 400, json |-> TRUE, err |-> e, mountpoint |-> "", volumes |-> <<>>]

\* RpcRequestError::error_response: HttpResponse::new(BAD_REQUEST), a response
\* without a JSON body
error_response ==
    [status |-> 400, json |-> FALSE, err |-> "", mountpoint |-> "", volumes |-> <<>>]

\* the route table has no default service: a path that matches no resource is
\* answered by the framework with 404 and no JSON body
NotFound ==
    [status |-> 404, json |-> FALSE, err |-> "", mountpoint |-> "", volumes |-> <<>>]

handle_volume_create(r) == IF r.ok THEN RpcOk("", <<>>) ELSE RpcErr(r.err)
handle_volume_remove(r) == IF r.ok THEN RpcOk("", <<>>) ELSE RpcErr(r.err)
handle_volume_mount(r) == IF r.ok THEN RpcOk(r.mp, <<>>) ELSE RpcErr(r.err)

\* handle_volume_path whose Err arm logs the error and answers Ok all the same
handle_volume_path_ErrorLogged(r) == RpcOk(r.mp, <<>>)

handle_volume_path(r) == IF r.ok THEN RpcOk(r.mp, <<>>) ELSE RpcErr(r.err)
handle_volume_unmount(r) == IF r.ok THEN RpcOk("", <<>>) ELSE RpcErr(r.err)
handle_volume_get(r) == IF r.ok THEN RpcOk("", r.vols) ELSE RpcErr(r.err)
handle_volume_list(r) == IF r.ok THEN RpcOk("", r.vols) ELSE RpcErr(r.err)

\* serde's names of the variants of Protocol and of Scope
SerializeProtocol(v) == "VolumeDriver"
SerializeScope(v) == IF v = "Local" THEN "local" ELSE "global"

\* handle_plugin_activate answering ActivateResponse::default()
handle_plugin_activate_Default ==
    [status |-> 200, json |-> TRUE, body |-> [Implements |-> <<>>]]

\* HttpResponse::Ok().json(ActivateResponse {implements: vec![VolumeDriver]})
handle_plugin_activate ==
    [status |-> 200, json |-> TRUE,
     body |-> [Implements |-> <<SerializeProtocol("VolumeDriver")>>]]

\* HttpResponse::Ok().json(Capabilities {scope: Scope::Local})
capabilities ==
    [status |-> 200, json |-> TRUE, body |-> [Scope |-> SerializeScope("Local")]]

\* the response the handler p writes for the driver call it has made
Response(p) ==
    CASE h[p].op = "create" -> handle_volume_create(Result(p))
      [] h[p].op = "remove" -> handle_volume_remove(Result(p))
      [] h[p].op = "mount" -> handle_volume_mount(Result(p))
      [] h[p].op = "path" -> handle_volume_path(Result(p))
      [] h[p].op = "unmount" -> handle_volume_unmount(Result(p))
      [] h[p].op = "get" -> handle_volume_get(Result(p))
      [] h[p].op = "list" -> handle_volume_list(Result(p))
      [] h[p].op = "malformed" -> error_response
      [] h[p].op = "unknown" -> NotFound
      [] h[p].op = "activate" -> handle_plugin_activate
      [] h[p].op = "capabilities" -> capabilities

\* the driver calls that change volumes
Changing == {"create", "remove", "mount", "unmount"}

\* the history of a name on which a changing request has failed
Failed == <<[op |-> "failed", id |-> ""]>>

\* handle_volume_*: the response is written and the handler is free again.
\* life keeps, per name, the changing requests answered with success, up to the
\* first one that was answered with an error.
Respond(p) ==
    /\ h[p].pc = "done"
    /\ h' = [h EXCEPT ![p] = Idle]
    /\ life' = IF h[p].op \in Changing
               THEN [life EXCEPT ![h[p].name] =
                        IF @ = Failed \/ h[p].res # "ok" THEN Failed
                        ELSE Append(@, [op |-> h[p].op, id |-> h[p].id])]
               ELSE life
    /\ UNCHANGED <<srv, hsm, dataDir, img, keyfile, mountDir, dm, mounts, faults, ops,
                   par>>

\* the names a request may carry.  The names are alike, so the first request of
\* a behaviour is taken to name "v1".
RequestNames == IF ops = 0 THEN {"v1"} ELSE Names

Step(p) ==
    \/ \E n \in RequestNames : CreateStart(p, n)
    \/ CreateMkdir(p)
    \/ CreateDd(p)
    \/ CreateFormat(p)
    \/ CreateActivate(p)
    \/ CreateMkfs(p)
    \/ CreateDeactivate(p)
    \/ CreateCleanup(p)
    \/ CreateStore(p)
    \/ \E n \in RequestNames : RemoveStart(p, n)
    \/ RemoveRm(p)
    \/ \E n \in RequestNames, i \in Ids : MountStart(p, n, i)
    \/ MountKey(p)
    \/ MountMkdir(p)
    \/ MountActivate(p)
    \/ MountMount(p)
    \/ \E n \in RequestNames, i \in Ids : UnmountStart(p, n, i)
    \/ UnmountUmount(p)
    \/ UnmountDeactivate(p)
    \/ UnmountRmdir(p)
    \/ \E n \in RequestNames : path(p, n)
    \/ \E n \in RequestNames : get(p, n)
    \/ list(p)
    \/ Respond(p)

\* handlers of the HTTP server's worker threads run in parallel
Next == \E p \in Procs : Step(p)

Spec == Init /\ [][Next]_vars

\* no other request is being handled
Sole(p) == \A q \in Procs \ {p} : h[q].op = "idle"

\* requests arrive one at a time: each is answered before the next is accepted
SeqNext ==
    \E p \in Procs :
        \/ Sole(p) /\ \E n \in RequestNames : CreateStart(p, n)
        \/ CreateMkdir(p)
        \/ CreateDd(p)
        \/ CreateFormat(p)
        \/ CreateActivate(p)
        \/ CreateMkfs(p)
        \/ CreateDeactivate(p)
        \/ CreateCleanup(p)
        \/ CreateStore(p)
        \/ Sole(p) /\ \E n \in RequestNames : RemoveStart(p, n)
        \/ RemoveRm(p)
        \/ Sole(p) /\ \E n \in RequestNames, i \in Ids : MountStart(p, n, i)
        \/ MountKey(p)
        \/ MountMkdir(p)
        \/ MountActivate(p)
        \/ MountMount(p)
        \/ Sole(p) /\ \E n \in RequestNames, i \in Ids : UnmountStart(p, n, i)
        \/ UnmountUmount(p)
        \/ UnmountDeactivate(p)
        \/ UnmountRmdir(p)
        \/ Sole(p) /\ \E n \in RequestNames : path(p, n)
        \/ Sole(p) /\ \E n \in RequestNames : get(p, n)
        \/ Sole(p) /\ list(p)
        \/ Respond(p)

SeqSpec == Init /\ [][SeqNext]_vars

-----------------------------------------------------------------------------
(* The operator: between requests the keyfile of a volume is truncated by one *)
(* byte, or the plugin is started again with the other HSM.  Each counts as   *)
(* one failure of the environment.                                            *)

TamperKeyfile(n) ==
    /\ \A p \in Procs : h[p].op = "idle"
    /\ keyfile[n] # NoFile /\ keyfile[n].len > 0
    /\ Fault
    /\ keyfile' = [keyfile EXCEPT ![n] = Prefix(@, @.len - 1)]
    /\ UNCHANGED <<srv, life, hsm, dataDir, img, mountDir, dm, mounts, h, ops, par>>

\* main: the driver is constructed with the HSM of this start
Restart(v) ==
    /\ \A p \in Procs : h[p].op = "idle"
    /\ v # hsm
    /\ Fault
    /\ hsm' = v
    /\ UNCHANGED <<srv, life, dataDir, img, keyfile, mountDir, dm, mounts, h, ops, par>>

OperatorNext ==
    \/ SeqNext
    \/ \E n \in Names : TamperKeyfile(n)
    \/ \E v \in HSMs : Restart(v)

OperatorSpec == Init /\ [][OperatorNext]_vars

\* the requests of SeqNext and, one at a time as well, the requests the
\* dispatcher answers without a valid body or route
RouterNext ==
    \/ SeqNext
    \/ \E p \in Procs : Sole(p) /\ \E ep \in Extracting : Malformed(p, ep)
    \/ \E p \in Procs : Sole(p) /\ MalformedList(p)
    \/ \E p \in Procs : Sole(p) /\ UnknownRoute(p)

RouterSpec == Init /\ [][RouterNext]_vars

\* POST /Plugin.Activate and POST /VolumeDriver.Capabilities: the closures of
\* these routes take nothing from the request and do not use the driver
Activate(p) ==
    /\ Accept(p)
    /\ h' = [h EXCEPT ![p] = [Idle EXCEPT !.op = "activate", !.pc = "done",
                                          !.res = "ok"]]
    /\ UNCHANGED <<srv, life, hsm, dataDir, img, keyfile, mountDir, dm, mounts, faults>>

Capabilities(p) ==
    /\ Accept(p)
    /\ h' = [h EXCEPT ![p] = [Idle EXCEPT !.op = "capabilities", !.pc = "done",
                                          !.res = "ok"]]
    /\ UNCHANGED <<srv, life, hsm, dataDir, img, keyfile, mountDir, dm, mounts, faults>>

\* the requests of SeqNext and, one at a time as well, the two plugin routes
PluginNext ==
    \/ SeqNext
    \/ \E p \in Procs : Sole(p) /\ Activate(p)
    \/ \E p \in Procs : Sole(p) /\ Capabilities(p)

PluginSpec == Init /\ [][PluginNext]_vars

-----------------------------------------------------------------------------
(* VolumePlugin::start.  sock is what is at the socket path ("none", a "file" *)
(* left by an earlier run, a "dir", or the "bound" socket), found what start  *)
(* found there, unlink the result of fs::remove_file and why the call that    *)
(* made start return an error.                                                *)

Starting(s) == [pc |-> "start", sock |-> s, found |-> s, unlink |-> "", why |-> ""]

StartInit ==
    /\ hsm \in HSMs
    /\ dataDir = [n \in Names |-> FALSE]
    /\ img = [n \in Names |-> NoImg]
    /\ keyfile = [n \in Names |-> NoFile]
    /\ mountDir = [n \in Names |-> FALSE]
    /\ dm = {}
    /\ mounts = [n \in Names |-> <<>>]
    /\ h = [p \in Procs |-> Idle]
    /\ faults = 0
    /\ ops = 0
    /\ par = 0
    /\ life = [n \in Names |-> <<>>]
    /\ \E s \in {"none", "file", "dir"} : srv = Starting(s)

\* StartUnlink that returns the NotFound error as it does any other
StartUnlink_NotFoundFatal ==
    /\ srv.pc = "start"
    /\ \/ /\ NoFault
          /\ srv.sock = "file"
          /\ srv' = [srv EXCEPT !.pc = "bind", !.sock = "none", !.unlink = "Ok"]
       \/ /\ NoFault
          /\ srv.sock = "none"
          /\ srv' = [srv EXCEPT !.pc = "aborted", !.unlink = "NotFound",
                                !.why = "unlink"]
       \/ /\ NoFault
          /\ srv.sock = "dir"
          /\ srv' = [srv EXCEPT !.pc = "aborted", !.unlink = "Other",
                                !.why = "unlink"]
       \/ /\ Fault
          /\ srv' = [srv EXCEPT !.pc = "aborted", !.unlink = "Other",
                                !.why = "unlink"]
    /\ UNCHANGED <<life, hsm, dataDir, img, keyfile, mountDir, dm, mounts, h, ops, par>>

\* if let Err(err) = fs::remove_file(socket_path): a NotFound is ignored, any
\* other error is returned.  remove_file of a directory is such an error.
StartUnlink ==
    /\ srv.pc = "start"
    /\ \/ /\ NoFault
          /\ srv.sock = "file"
          /\ srv' = [srv EXCEPT !.pc = "bind", !.sock = "none", !.unlink = "Ok"]
       \/ /\ NoFault
          /\ srv.sock = "none"
          /\ srv' = [srv EXCEPT !.pc = "bind", !.unlink = "NotFound"]
       \/ /\ NoFault
          /\ srv.sock = "dir"
          /\ srv' = [srv EXCEPT !.pc = "aborted", !.unlink = "Other",
                                !.why = "unlink"]
       \/ /\ Fault
          /\ srv' = [srv EXCEPT !.pc = "aborted", !.unlink = "Other",
                                !.why = "unlink"]
    /\ UNCHANGED <<life, hsm, dataDir, img, keyfile, mountDir, dm, mounts, h, ops, par>>

\* HttpServer::new(..).bind_uds(socket_path)?.run()
StartBind ==
    /\ srv.pc = "bind"
    /\ \/ /\ NoFault
          /\ srv.sock = "none"
          /\ srv' = [srv EXCEPT !.pc = "listening", !.sock = "bound"]
       \/ /\ NoFault
          /\ srv.sock # "none"
          /\ srv' = [srv EXCEPT !.pc = "aborted", !.why = "bind"]
       \/ /\ Fault
          /\ srv' = [srv EXCEPT !.pc = "aborted", !.why = "bind"]
    /\ UNCHANGED <<life, hsm, dataDir, img, keyfile, mountDir, dm, mounts, h, ops, par>>

\* start, and then the requests, one at a time
StartNext ==
    \/ StartUnlink
    \/ StartBind
    \/ SeqNext

StartSpec == StartInit /\ [][StartNext]_vars

-----------------------------------------------------------------------------
(* The HSM on its own: a caller holds a blob and calls encrypt and then      *)
(* decrypt on it, or decrypt alone, as store_luks_key and get_luks_key do.   *)

\* the longest of the short blobs tried
MaxBlobLen == 3

\* the blobs a caller may hold: short ones, keys of the two lengths the HSMs
\* draw, and what CloudLockHSM made of one of these
RawBlobs ==
    {Bytes(l, t) : l \in (0 .. MaxBlobLen) \cup {CloudRandomLen, DummyRandomLen},
                   t \in Tokens}
Blobs == RawBlobs \cup {Pkcs7Pem(Base64Encode(b)) : b \in RawBlobs}

\* the caller p holds b (key) and is about to pass it to the HSM call pc
Holding(p, b, pc) ==
    [Idle EXCEPT !.op = "hsm", !.pc = pc, !.key = b, !.blob = b]

HsmInit ==
    /\ hsm \in HSMs
    /\ dataDir = [n \in Names |-> FALSE]
    /\ img = [n \in Names |-> NoImg]
    /\ keyfile = [n \in Names |-> NoFile]
    /\ mountDir = [n \in Names |-> FALSE]
    /\ dm = {}
    /\ mounts = [n \in Names |-> <<>>]
    /\ \E b \in Blobs, pc \in {"hsm_encrypt", "hsm_decrypt"} :
          h = [p \in Procs |-> IF p = Workers[1] THEN Holding(p, b, pc) ELSE Idle]
    /\ faults = 0
    /\ ops = 0
    /\ par = 0
    /\ life = [n \in Names |-> <<>>]
    /\ srv = Listening

\* hsm.encrypt(blob): DummyHSM cannot fail; CloudLockHSM fails when openssl does
Seal(p) ==
    /\ h[p].pc = "hsm_encrypt"
    /\ \/ /\ NoFault
          /\ h' = [h EXCEPT ![p].pc = "hsm_decrypt", ![p].blob = encrypt(hsm, @),
                            ![p].tried = @ \o <<"encrypt">>]
       \/ /\ Fault
          /\ hsm = "cloud"
          /\ Return(p, <<"encrypt">>, "UnableToEncrypt")
    /\ UNCHANGED <<srv, life, hsm, dataDir, img, keyfile, mountDir, dm, mounts, ops, par>>

\* hsm.decrypt(blob): DummyHSM cannot fail; CloudLockHSM fails on a blob that is
\* no PKCS#7 PEM, on a failed request and on an answer that is no base64
Unseal(p) ==
    /\ h[p].pc = "hsm_decrypt"
    /\ \/ /\ NoFault
          /\ decrypt_ok(hsm, h[p].blob)
          /\ h' = [h EXCEPT ![p].pc = "done", ![p].res = "ok",
                            ![p].blob = decrypt(hsm, @),
                            ![p].tried = @ \o <<"decrypt">>]
       \/ /\ NoFault
          /\ ~decrypt_ok(hsm, h[p].blob)
          /\ Return(p, <<"decrypt">>, DecryptError(hsm, h[p].blob))
       \/ /\ Fault
          /\ hsm = "cloud"
          /\ Return(p, <<"decrypt">>, DecryptError(hsm, h[p].blob))
    /\ UNCHANGED <<srv, life, hsm, dataDir, img, keyfile, mountDir, dm, mounts, ops, par>>

HsmNext == \E p \in Procs : Seal(p) \/ Unseal(p)

HsmSpec == HsmInit /\ [][HsmNext]_vars

-----------------------------------------------------------------------------
(* The claims *)

\* no request is being handled: the state between operations
Quiet == \A p \in Procs : h[p].pc \in {"idle", "done"}

\* the handler p has just returned from the driver call op
Done(p, op) == h[p].op = op /\ h[p].pc = "done"

CreateSteps == <<"mkdir", "dd", "format", "activate", "mkfs", "deactivate">>

\* C1: after a create that failed in one of steps 2-7, <data_dir>/<name> does
\* not exist and the error returned is the error of the failing step.
C1_FailedCreateCleansUp ==
    \A p \in Procs :
        Done(p, "create") /\ h[p].why # ""
            => ~dataDir[h[p].name] /\ h[p].res = h[p].why

\* C2 as claimed: in every reachable state, a keyfile exists only for a volume
\* whose image is fully formatted.
C2_NoKeyfileUnlessFormatted ==
    \A n \in Names : keyfile[n] # NoFile => img[n].st = "ext4"

\* C2 as amended: every write of the keyfile is the last call of a create whose
\* steps 2-7 all returned Ok, and at that write the image is fully formatted
\* under that create's key and the create's own device is deactivated.
C2_KeyfileWrittenLast ==
    [][\A n \in Names :
          keyfile'[n] # keyfile[n] /\ keyfile'[n] # NoFile
              => \E p \in Procs :
                    /\ h[p].op = "create" /\ h[p].name = n
                    /\ h[p].tried = CreateSteps /\ h[p].why = ""
                    /\ h'[p].pc = "done"
                    /\ img[n].st = "ext4" /\ img[n].slot = h[p].key
                    /\ Uuid(h[p].tok) \notin DmNames]_vars

\* C2's case: a create has written the keyfile
C2_Witness ==
    \E p \in Procs :
        Done(p, "create") /\ h[p].res = "ok" /\ keyfile[h[p].name] # NoFile

\* C3: after a mount that failed once the device was activated (file system
\* probing or the mount call failed), /dev/mapper/<id> does not exist.
C3_FailedMountLeaksNoDevice ==
    \A p \in Procs :
        Done(p, "mount") /\ h[p].res \in {"probe", "mount"}
            => h[p].id \notin DmNames

\* C4: unmount attempts all three sub-steps in order, whatever fails.
C4_UnmountTriesAllSteps ==
    \A p \in Procs :
        Done(p, "unmount")
            => h[p].tried = <<"umount", "deactivate", "remove_dir_all">>

\* the handler has made a call of its operation and has not returned
InMiddle(p) == h[p].pc \notin {"idle", "done"} /\ h[p].tried # <<>>

\* C5: operations on the same name are serialized: while one handler is in
\* the middle of an operation on a name, no other handler makes a call of an
\* operation on that name.
C5_SerializedPerName ==
    [][\A p, q \in Procs :
          /\ p # q
          /\ InMiddle(p)
          /\ h[q].pc \notin {"idle", "done"}
          /\ h[q].name = h[p].name
          => h'[q] = h[q]]_vars

\* C6: between operations, <mount_dir>/<name> exists exactly when the volume
\* is mounted there.
C6_MountDirIffMounted ==
    Quiet => \A n \in Names : mountDir[n] <=> mounts[n] # <<>>

\* C7: after a mount that failed after creating <mount_dir>/<name>, that
\* directory is removed.
C7_FailedMountRemovesDir ==
    \A p \in Procs :
        Done(p, "mount") /\ h[p].res # "ok" /\ h[p].made
            => ~mountDir[h[p].name]

\* C8 as claimed: after a successful mount(n, id) both <mount_dir>/n and
\* /dev/mapper/<id> exist; after an unmount(n, id) of the volume so mounted,
\* however it returns, neither exists.
C8_MountThenUnmount ==
    \A p \in Procs :
        /\ Done(p, "mount") /\ h[p].res = "ok"
              => mountDir[h[p].name] /\ h[p].id \in DmNames
        /\ Done(p, "unmount") /\ h[p].active
              => ~mountDir[h[p].name] /\ h[p].id \notin DmNames

\* C8 as amended: after a successful mount(n, id) both exist; after an
\* unmount(n, id) that returns success, neither exists.
C8_MountThenUnmountOk ==
    \A p \in Procs :
        /\ Done(p, "mount") /\ h[p].res = "ok"
              => mountDir[h[p].name] /\ h[p].id \in DmNames
        /\ Done(p, "unmount") /\ h[p].res = "ok"
              => ~mountDir[h[p].name] /\ h[p].id \notin DmNames

\* C8's case: an unmount(n, id) of a volume mounted as Active(id) succeeded
C8_Witness ==
    \E p \in Procs : Done(p, "unmount") /\ h[p].active /\ h[p].res = "ok"

\* C9: when create(n) returns success, volume.img and keyfile exist and are
\* not empty, and the device the create activated is no longer active.
C9_CreateOkLeavesDormantVolume ==
    \A p \in Procs :
        Done(p, "create") /\ h[p].res = "ok"
            => /\ ImgLen(h[p].name) > 0
               /\ keyfile[h[p].name] # NoFile
               /\ keyfile[h[p].name].len > 0
               /\ Uuid(h[p].tok) \notin DmNames

\* C9's case: a create returned success
C9_Witness == \E p \in Procs : Done(p, "create") /\ h[p].res = "ok"

\* keyslot 0 of the LUKS header of n's image accepts the unsealed keyfile
KeyslotAccepts(n) ==
    /\ keyfile[n] # NoFile
    /\ img[n].st \in {"luks", "ext4"}
    /\ decrypt_ok(hsm, keyfile[n])
    /\ img[n].slot = decrypt(hsm, keyfile[n])

\* C10: between operations, the keyfile exists exactly when the image holds a
\* LUKS header whose first keyslot accepts the unsealed keyfile.
C10_KeyfileIffKeyslotAccepts ==
    Quiet => \A n \in Names : keyfile[n] # NoFile <=> KeyslotAccepts(n)

\* the successful request op (with mount id i) as life records it
Req(op, i) == [op |-> op, id |-> i]

\* the device-mapper nodes that map the image of n
DmOf(n) == {d \in dm : d.vol = n}

\* the volume n is Dormant: image and keyfile on disk, no device, not mounted
Dormant(n) ==
    /\ ImgExists(n)
    /\ keyfile[n] # NoFile
    /\ DmOf(n) = {}
    /\ mounts[n] = <<>>

\* the environment has failed no call of the request p is handling
NoFaultIn(p) == faults = h[p].pre.faults

\* C11: when create(n), mount(n, id1) and unmount(n, id1) are the requests made
\* on n and all succeeded, n is Dormant again, and a following mount(n, id2)
\* with an id2 that names no active device succeeds and returns <mount_dir>/n
\* (no call of that mount failing in the environment).
C11_LifecycleRepeats ==
    \A p \in Procs :
        LET n == h[p].name IN
        /\ Done(p, "unmount") /\ h[p].res = "ok"
            /\ life[n] = <<Req("create", ""), Req("mount", h[p].id)>>
              => Dormant(n)
        /\ \A i \in Ids :
              /\ Done(p, "mount")
              /\ life[n] = <<Req("create", ""), Req("mount", i), Req("unmount", i)>>
              /\ h[p].id \notin {d.name : d \in h[p].pre.dm}
              /\ NoFaultIn(p)
              => h[p].res = "ok" /\ h[p].mp = MountPoint(n)

\* C11's case: the second mount of the lifecycle has succeeded
C11_Witness ==
    \E p \in Procs : \E i \in Ids :
        /\ Done(p, "mount") /\ h[p].res = "ok" /\ h[p].id # i
        /\ life[h[p].name] = <<Req("create", ""), Req("mount", i), Req("unmount", i)>>

\* the last request life records for n
LastReq(n) == life[n][Len(life[n])]

\* C12: a second unmount(n, id) after an unmount(n, id) that succeeded is
\* answered with 400, the error being that of the umount of the absent mount
\* point; the handler returns, and the volume stays Dormant with image and
\* keyfile as they were.
C12_DoubleUnmount ==
    \A p \in Procs :
        LET n == h[p].name IN
        /\ Done(p, "unmount")
        /\ life[n] # <<>>
        /\ LastReq(n) = Req("unmount", h[p].id)
        => /\ Response(p).status = 400
           /\ h[p].res = "umount"
           /\ img[n] = h[p].pre.img
           /\ keyfile[n] = h[p].pre.keyfile
           /\ Dormant(n)

\* C12's case: the second unmount has been answered
C12_Witness ==
    \E p \in Procs :
        /\ Done(p, "unmount")
        /\ life[h[p].name] # <<>>
        /\ LastReq(h[p].name) = Req("unmount", h[p].id)
        /\ Response(p).status = 400

\* no other request on p's name has been handled since p was accepted, and
\* none is being handled
Undisturbed(p) ==
    /\ life[h[p].name] = h[p].pre.life
    /\ life[h[p].name] # Failed
    /\ \A q \in Procs \ {p} : h[q].op \in Changing => h[q].name # h[p].name

\* the files and devices of the volumes other than n
Others(n, dD, im, kf, mD, mt, d) ==
    <<[m \in Names \ {n} |-> <<dD[m], im[m], kf[m], mD[m], mt[m]>>],
      {x \in d : x.vol # n}>>

\* C13: every step of a create(n) leaves the files, mounts and devices of the
\* other volumes as they are, whatever the other handlers are doing; and a
\* create that runs in parallel with requests on other names only succeeds (no
\* call failing in the environment).
C13_ParallelCreates ==
    [][\A p \in Procs :
          h[p].op = "create" /\ h'[p].op = "create" /\ h'[p] # h[p]
          => /\ Others(h[p].name, dataDir', img', keyfile', mountDir', mounts', dm')
                  = Others(h[p].name, dataDir, img, keyfile, mountDir, mounts, dm)
             /\ (h'[p].pc = "done" /\ faults' = h[p].pre.faults /\ Undisturbed(p)
                    => h'[p].res = "ok")]_vars

\* C13's case: two creates for different names ran in parallel and succeeded
C13_Witness ==
    \E p, q \in Procs :
        /\ Done(p, "create") /\ h[p].res = "ok"
        /\ Done(q, "create") /\ h[q].res = "ok"
        /\ h[p].name # h[q].name

\* C14: get(n) of an existing volume answers Some(<mount_dir>/n) exactly when
\* the volume is mounted there, and None otherwise.
C14_GetMountpointIffMounted ==
    \A p \in Procs :
        Done(p, "get") /\ h[p].res = "ok"
            => h[p].vols[1].mountpoint =
                  IF mounts[h[p].name] # <<>> THEN Some(MountPoint(h[p].name)) ELSE None

\* C15: whatever the state list() is called in, a create in progress or failed
\* included, it returns the names whose volume.img exists, each once.
C15_ListIsTheImages ==
    [][\A p \in Procs :
          h[p].op = "idle" /\ h'[p].op = "list"
          => /\ {h'[p].vols[i].name : i \in DOMAIN h'[p].vols}
                  = {n \in Names : ImgExists(n)}
             /\ Len(h'[p].vols) = Cardinality({n \in Names : ImgExists(n)})]_vars

\* the last changing request answered on n was a successful remove(n)
Removed(n) == life[n] # <<>> /\ LastReq(n) = Req("remove", "")

\* C16: after a remove(n) that returned success, <data_dir>/n, its image and
\* its keyfile do not exist, list() does not report n and get(n) is an error.
C16_RemovedIsGone ==
    \A p \in Procs :
        /\ Done(p, "remove") /\ h[p].res = "ok"
              => /\ ~dataDir[h[p].name]
                 /\ ~ImgExists(h[p].name)
                 /\ keyfile[h[p].name] = NoFile
        /\ Done(p, "list")
              => \A n \in Names :
                    Removed(n) => \A i \in DOMAIN h[p].vols : h[p].vols[i].name # n
        /\ Done(p, "get") /\ Removed(h[p].name)
              => Response(p).status = 400 /\ Response(p).volumes = <<>>

\* C16's case: get(n) has been asked after a successful remove(n)
C16_Witness ==
    \E p \in Procs : Done(p, "get") /\ Removed(h[p].name)

\* C17: a create whose steps 2-7 succeeded and whose store_luks_key failed is
\* answered with an error and leaves the volume directory with the formatted
\* image and no keyfile.
C17_StoreFailureLeavesOrphan ==
    \A p \in Procs :
        Done(p, "create") /\ h[p].why = "" /\ h[p].res # "ok"
            => /\ Response(p).status = 400
               /\ dataDir[h[p].name]
               /\ img[h[p].name].st = "ext4"
               /\ keyfile[h[p].name] = NoFile

\* the keyfile b was not sealed by the HSM v: a raw key under CloudLockHSM, a
\* PKCS#7 envelope under DummyHSM
Foreign(v, b) ==
    /\ b # NoFile
    /\ IF v = "cloud" THEN b.enc = <<>> ELSE Len(b.enc) > 0 /\ Top(b).kind = "pkcs7"

\* the keyfile b is a sealed key that lost its last byte
Tampered(b) ==
    /\ Len(b.enc) > 0
    /\ Top(b).kind = "cut" /\ Top(b).of = b.len + 1

\* C18: a mount that finds a keyfile sealed by the other HSM, or truncated by
\* one byte, is answered 400 with the Invalid Key error of the unseal.
C18_ForeignOrTamperedKeyfile ==
    \A p \in Procs :
        /\ Done(p, "mount")
        /\ Foreign(hsm, h[p].pre.keyfile) \/ Tampered(h[p].pre.keyfile)
        => /\ Response(p).status = 400
           /\ Response(p).err = "decrypt: " \o Display("InvalidKey")

\* C19: on every endpoint the response is 200 with an empty Err exactly when
\* the driver call returned Ok, and 400 with the driver's error string as Err
\* exactly when it returned an error.
C19_StatusFollowsResult ==
    \A p \in Procs :
        h[p].pc = "done"
            => /\ Response(p).status \in {200, 400}
               /\ Response(p).status = 200 <=> Result(p).ok
               /\ Response(p).status = 200 => Response(p).err = ""
               /\ Response(p).status = 400 => Response(p).err = h[p].res

\* C19's case: a driver call has returned an error and is being answered
C19_Witness ==
    \E p \in Procs : Done(p, "path") /\ ~Result(p).ok

\* the driver calls
DriverOps == {"create", "remove", "mount", "path", "unmount", "get", "list"}

\* C20: a request with a malformed body and a request to an unknown route are
\* answered 400 with a JSON body carrying Err, and call no driver operation.
C20_BadRequestsRejected ==
    \A p \in Procs :
        h[p].pc = "done" /\ (h[p].bad \/ h[p].op = "unknown")
            => /\ Response(p).status = 400
               /\ Response(p).json
               /\ h[p].op \notin DriverOps

MountedDmOf(n) == {d \in DmOf(n) : d.name \in Ids}

\* C22: in every reachable state at most one device activated by a mount maps
\* the image of a volume, and at most one mount is on its mount directory,
\* whatever the activation ids of the mounts.
C22_OneActiveMountPerVolume ==
    \A n \in Names : Cardinality(MountedDmOf(n)) <= 1 /\ Len(mounts[n]) <= 1

\* the request found its volume Active: the volume directory on disk, a mount
\* on the mount directory and the device of that mount in the device-mapper table
FoundActive(p) ==
    /\ h[p].pre.dataDir /\ h[p].pre.img.st # "none"
    /\ h[p].pre.mountDir
    /\ h[p].pre.mounts # <<>>
    /\ \E d \in h[p].pre.dm :
          d.name = h[p].pre.mounts[Len(h[p].pre.mounts)] /\ d.vol = h[p].name

\* C23: a remove(n) of an Active volume leaves <mount_dir>/n, the mount and the
\* device-mapper table as they are, and (no call failing in the environment)
\* deletes <data_dir>/n and returns success.
C23_RemoveIgnoresMount ==
    \A p \in Procs :
        Done(p, "remove") /\ FoundActive(p)
            => /\ mountDir[h[p].name] = h[p].pre.mountDir
               /\ mounts[h[p].name] = h[p].pre.mounts
               /\ dm = h[p].pre.dm
               /\ NoFaultIn(p) => h[p].res = "ok" /\ ~dataDir[h[p].name]

\* C23's case: a remove of an Active volume has returned success
C23_Witness ==
    \E p \in Procs : Done(p, "remove") /\ FoundActive(p) /\ h[p].res = "ok"

\* C24: path(n) is answered 200 with <mount_dir>/n exactly when that
\* directory exists, and 400 with an error otherwise, whether or not
\* <data_dir>/n exists.
C24_PathIffMountDir ==
    \A p \in Procs :
        Done(p, "path")
            => IF mountDir[h[p].name]
               THEN /\ Result(p).ok
                    /\ Response(p).status = 200
                    /\ Response(p).mountpoint = MountPoint(h[p].name)
               ELSE /\ ~Result(p).ok
                    /\ Response(p).status = 400 /\ Response(p).err # ""

\* C24's case: path(n) has answered for a mount directory whose volume
\* directory is gone
C24_Witness ==
    \E p \in Procs :
        Done(p, "path") /\ mountDir[h[p].name] /\ ~dataDir[h[p].name]

\* C25: /Plugin.Activate is answered 200 with {"Implements":["VolumeDriver"]}
\* and /VolumeDriver.Capabilities 200 with {"Scope":"local"}, in whatever state
\* the volumes are, without a call of the driver and with no change of state.
C25_PluginRoutesAreFixed ==
    [][\A p \in Procs :
          h[p].op = "idle" /\ h'[p].op \in {"activate", "capabilities"}
          => /\ h'[p].pc = "done" /\ h'[p].tried = <<>>
             /\ Response(p)' =
                   IF h'[p].op = "activate"
                   THEN [status |-> 200, json |-> TRUE,
                         body |-> [Implements |-> <<"VolumeDriver">>]]
                   ELSE [status |-> 200, json |-> TRUE,
                         body |-> [Scope |-> "local"]]
             /\ UNCHANGED <<hsm, dataDir, img, keyfile, mountDir, dm, mounts,
                            faults, life, srv>>]_vars

\* C25's case: /VolumeDriver.Capabilities has been answered while a volume was
\* mounted
C25_Witness ==
    \E p \in Procs :
        /\ Done(p, "capabilities")
        /\ \E n \in Names : mounts[n] # <<>>

\* start has gone on to bind the socket
BindProceeds ==
    srv.pc \in {"bind", "listening"} \/ (srv.pc = "aborted" /\ srv.why = "bind")

\* C26: when start finds a file at the socket path the file is removed and
\* start goes on to bind; when it finds nothing the NotFound error is ignored
\* and start goes on to bind; any other error of the unlink makes start return
\* it with nothing bound and the path as it was.  Requests are served only once
\* the socket is bound.
C26_StartUnlinksSocket ==
    /\ srv.pc # "start" /\ srv.unlink = "Ok"
          => srv.found = "file" /\ BindProceeds /\ srv.sock \in {"none", "bound"}
    /\ srv.pc # "start" /\ srv.unlink = "NotFound"
          => srv.found = "none" /\ BindProceeds /\ srv.sock \in {"none", "bound"}
    /\ srv.pc # "start" /\ srv.unlink = "Other"
          => /\ srv.pc = "aborted" /\ srv.why = "unlink"
             /\ srv.sock = srv.found
             /\ ops = 0
    /\ srv.pc # "start" /\ srv.found = "file" /\ faults = 0 => srv.unlink = "Ok"
    /\ srv.pc # "start" /\ srv.found = "none" /\ faults = 0 => srv.unlink = "NotFound"
    /\ srv.pc = "listening" <=> srv.sock = "bound"
    /\ ops > 0 => srv.pc = "listening"

\* C26's case: start removed the file it found, bound the socket, and a
\* request has been answered
C26_Witness ==
    /\ srv.pc = "listening" /\ srv.found = "file" /\ srv.unlink = "Ok"
    /\ \E p \in Procs : Done(p, "list")

\* C27: the key a create draws from the HSM and adds to the keyslot is 1024
\* bytes long, under DummyHSM and under CloudLockHSM.
C27_KeyIs1024Bytes ==
    /\ \A p \in Procs : h[p].op = "create" => h[p].key.len = 1024
    /\ \A n \in Names : img[n].st \in {"luks", "ext4"} => img[n].slot.len = 1024

\* C28: after a create that activated the image under its UUID and then failed
\* in mkfs or in the deactivation, /dev/mapper/<uuid> is not active.
C28_FailedCreateLeaksNoDevice ==
    \A p \in Procs :
        Done(p, "create") /\ h[p].why \in {"mkfs", "deactivate"}
            => Uuid(h[p].tok) \notin DmNames

\* the mount p found an image without a keyfile, or with a keyfile the HSM
\* cannot unseal
FoundUnmountable(p) ==
    /\ h[p].pre.img.st # "none"
    /\ h[p].pre.keyfile = NoFile \/ ~decrypt_ok(hsm, h[p].pre.keyfile)

\* C29: a mount of a volume whose image exists and whose keyfile is missing or
\* cannot be unsealed returns an error from get_luks_key, its first and only
\* call: <mount_dir>/<name>, the device-mapper table and the mounts are as
\* they were.
C29_NoKeyNoMount ==
    \A p \in Procs :
        Done(p, "mount") /\ FoundUnmountable(p)
            => /\ h[p].res # "ok"
               /\ Response(p).status = 400
               /\ h[p].tried = <<"get_luks_key">>
               /\ mountDir[h[p].name] = h[p].pre.mountDir
               /\ dm = h[p].pre.dm
               /\ mounts[h[p].name] = h[p].pre.mounts

\* C29's case: a mount of an orphan (formatted image, no keyfile) has returned
C29_Witness ==
    \E p \in Procs :
        /\ Done(p, "mount")
        /\ h[p].pre.img.st = "ext4" /\ h[p].pre.keyfile = NoFile
        /\ ~h[p].pre.mountDir

\* the handler p takes a step of a request op of the set O: it accepts one, makes
\* a call of one, or answers one
StepOf(p, O) == h'[p] # h[p] /\ (h[p].op \in O \/ h'[p].op \in O)

\* C30: the volume directory, the image and the keyfile are written only by
\* steps of create, and deleted only by remove and by the cleanup of a failed
\* create; no step of mount, unmount, path, get or list changes anything under
\* <data_dir>, and no step of path, get or list changes <mount_dir>, the mounts
\* or the device-mapper table, whatever the other handlers are doing.
C30_OnlyCreateAndRemoveWrite ==
    [][/\ <<dataDir, img, keyfile>>' # <<dataDir, img, keyfile>>
             => \E p \in Procs : StepOf(p, {"create", "remove"})
       /\ \A n \in Names :
             \/ dataDir[n] /\ ~dataDir'[n]
             \/ img[n].st # "none" /\ img'[n].st = "none"
             \/ keyfile[n] # NoFile /\ keyfile'[n] = NoFile
             => \E p \in Procs :
                   /\ h[p].name = n
                   /\ h[p].pc \in {"r_rm", "c_cleanup"}
                   /\ h'[p].pc = "done"
       /\ \A p \in Procs :
             StepOf(p, {"mount", "unmount", "path", "get", "list"})
                 => UNCHANGED <<dataDir, img, keyfile>>
       /\ \A p \in Procs :
             StepOf(p, {"path", "get", "list"})
                 => UNCHANGED <<mountDir, mounts, dm>>]_vars

\* C30's case: a volume has been mounted and unmounted again, and its image and
\* keyfile are on disk
C30_Witness ==
    \E p \in Procs :
        /\ Done(p, "unmount") /\ h[p].res = "ok"
        /\ img[h[p].name].st = "ext4" /\ keyfile[h[p].name] # NoFile

\* C31: unmount runs the removal of <mount_dir>/<name> only after its umount
\* and its deactivation returned Ok, and it runs neither the deactivation nor
\* the removal while a file system is still mounted on <mount_dir>/<name>.
C31_RmdirOnlyWhenUnmounted ==
    [][\A p \in Procs :
          /\ h[p].pc = "u_deactivate" /\ h'[p].pc # "u_deactivate"
                => h[p].tried = <<"umount">> /\ mounts[h[p].name] = <<>>
          /\ h[p].pc = "u_rmdir" /\ h'[p].pc # "u_rmdir"
                => /\ h[p].tried = <<"umount", "deactivate">>
                   /\ mounts[h[p].name] = <<>>]_vars

\* C32: the cleanup of a create(n) that failed in steps 2-7 removes the whole
\* directory <data_dir>/n (its remove_dir_all not failing in the environment):
\* after it neither the directory nor an image nor a keyfile of n exists,
\* whether they were written by this create, by an earlier create(n) or by a
\* create(n) another handler is running.
C32_FailedCreateRemovesVolume ==
    [][\A p \in Procs :
          h[p].pc = "c_cleanup" /\ h'[p].pc = "done" /\ faults' = faults
              => /\ h[p].why # ""
                 /\ ~dataDir'[h[p].name]
                 /\ img'[h[p].name] = NoImg
                 /\ keyfile'[h[p].name] = NoFile
                 /\ dataDir[h[p].name] => h'[p].res = h[p].why]_vars

\* C32's case: a create(n) that found the image and the keyfile of an earlier
\* create(n) has failed, and they are gone
C32_Witness ==
    \E p \in Procs :
        /\ Done(p, "create") /\ h[p].why # "" /\ h[p].res = h[p].why
        /\ h[p].pre.img.st = "ext4" /\ h[p].pre.keyfile # NoFile
        /\ ~dataDir[h[p].name] /\ keyfile[h[p].name] = NoFile

\* C33: the image allocation fails create only when dd could not be started; a
\* dd that ran and exited with a non-zero status is taken as success, and
\* create goes on to the LUKS format, which then finds the image as dd left it.
C33_DdStatusIgnored ==
    \A p \in Procs :
        h[p].op = "create" /\ h[p].dd # ""
            => /\ h[p].why = "dd" <=> h[p].dd = "spawn"
               /\ h[p].dd \in {"exit0", "exit1"}
                     => h[p].pc = "c_format" \/ Len(h[p].tried) > 2

\* C33's case: dd exited with a non-zero status and made no image, and create
\* is at the LUKS format
C33_Witness ==
    \E p \in Procs :
        /\ h[p].op = "create" /\ h[p].dd = "exit1"
        /\ h[p].pc = "c_format" /\ ~ImgExists(h[p].name)

=============================================================================
